---- MODULE Spec2Model ----
(***************************************************************************)
(* Model of motion_extraction.cpp: command-line parsing (parseArgs), the   *)
(* start-up checks of main, and the frame-delay pipeline extractMotion     *)
(* with its pixel transforms (compareFrames, gamma LUT, overlay).          *)
(*                                                                         *)
(* A frame is one row of pixels, a pixel is <<b, g, r>> of 8-bit values.   *)
(* Frames travelling through the pipeline carry, next to their pixels, the *)
(* index of the input frame they were read from (bookkeeping only).        *)
(***************************************************************************)
EXTENDS Integers, Sequences, FiniteSets, TLC

\* ------------------------------------------------------------------ bounds
MaxFrames == 3      \* longest palette video, in frames
MaxOpts   == 2      \* most option tokens on a command line
MaxWidth  == 2      \* widest palette frame, in pixels

\* ------------------------------------------------------- program constants
PixelMax     == 255
ThresholdVal == 129
GrayShift    == 14
B2Y          == 1868
G2Y          == 9617
R2Y          == 4899

Min(a, b) == IF a < b THEN a ELSE b
Max(a, b) == IF a > b THEN a ELSE b

\* =========================================================== pixel algebra

\* cv::saturate_cast<uchar> of the exact value n/2: round to nearest, ties to
\* even (cvRound), then clamp to 0..255.
SaturateHalf(n) ==
    LET q == n \div 2
        r == IF n % 2 = 0 THEN q ELSE IF q % 2 = 0 THEN q ELSE q + 1
    IN  Max(0, Min(PixelMax, r))

\* cv::bitwise_not on one 8-bit channel.
BitwiseNot(v) == PixelMax - v

\* cv::bitwise_or on two 8-bit channels.
RECURSIVE BitOrN(_, _, _)
BitOrN(a, b, n) ==
    IF n = 0 THEN 0
    ELSE (IF a % 2 = 1 \/ b % 2 = 1 THEN 1 ELSE 0)
         + 2 * BitOrN(a \div 2, b \div 2, n - 1)

BitwiseOr(a, b) == BitOrN(a, b, 8)

\* cv::addWeighted(src1, 0.5, inverted, 0.5, 0) on one channel.
AddWeightedHalf(a, b) == SaturateHalf(a + b)

\* Variant of CompareChannel that blends with src2 itself, not its negative.
CompareChannelNoInvert(a, b) == AddWeightedHalf(a, b)

\* compareFrames on one channel: blend src1 with the negative of src2.
CompareChannel(a, b) == AddWeightedHalf(a, BitwiseNot(b))

\* compareFrames on a row of pixels.
compareFrames(src1, src2) ==
    [x \in 1..Len(src1) |->
        [c \in 1..3 |-> CompareChannel(src1[x][c], src2[x][c])]]

\* gammaLUT as filled by createGammaLUT(gammaLUT, 1/1.1):
\* saturate_cast<uchar>(pow(i / 255.0, gamma_) * 255.0) for i = 0..255.
gammaLUT ==
    << 0, 2, 3, 4, 6, 7, 8, 10, 11, 12, 13, 15, 16, 17, 18, 19,
       21, 22, 23, 24, 25, 26, 27, 29, 30, 31, 32, 33, 34, 35, 36, 38,
       39, 40, 41, 42, 43, 44, 45, 46, 47, 48, 49, 51, 52, 53, 54, 55,
       56, 57, 58, 59, 60, 61, 62, 63, 64, 65, 66, 67, 68, 69, 71, 72,
       73, 74, 75, 76, 77, 78, 79, 80, 81, 82, 83, 84, 85, 86, 87, 88,
       89, 90, 91, 92, 93, 94, 95, 96, 97, 98, 99, 100, 101, 102, 103, 104,
       105, 106, 107, 108, 109, 110, 111, 112, 113, 114, 115, 116, 117, 118, 119, 120,
       121, 122, 123, 124, 125, 126, 127, 128, 129, 129, 130, 131, 132, 133, 134, 135,
       136, 137, 138, 139, 140, 141, 142, 143, 144, 145, 146, 147, 148, 149, 150, 151,
       152, 153, 154, 155, 156, 156, 157, 158, 159, 160, 161, 162, 163, 164, 165, 166,
       167, 168, 169, 170, 171, 172, 173, 174, 174, 175, 176, 177, 178, 179, 180, 181,
       182, 183, 184, 185, 186, 187, 188, 189, 190, 190, 191, 192, 193, 194, 195, 196,
       197, 198, 199, 200, 201, 202, 203, 204, 204, 205, 206, 207, 208, 209, 210, 211,
       212, 213, 214, 215, 216, 217, 217, 218, 219, 220, 221, 222, 223, 224, 225, 226,
       227, 228, 228, 229, 230, 231, 232, 233, 234, 235, 236, 237, 238, 239, 239, 240,
       241, 242, 243, 244, 245, 246, 247, 248, 249, 250, 250, 251, 252, 253, 254, 255 >>

\* applyGammaCorrection: every channel of every pixel through the table.
applyGammaCorrection(image) ==
    [x \in 1..Len(image) |-> [c \in 1..3 |-> gammaLUT[image[x][c] + 1]]]

\* cv::cvtColor(COLOR_BGR2GRAY) on 8-bit data (fixed point, 14 bits).
Bgr2Gray(image) ==
    [x \in 1..Len(image) |->
        (image[x][1] * B2Y + image[x][2] * G2Y + image[x][3] * R2Y
            + 2 ^ (GrayShift - 1)) \div (2 ^ GrayShift)]

\* Variant of ThresholdBinary whose test includes the threshold itself.
ThresholdBinaryInclusive(v) == IF v >= ThresholdVal THEN PixelMax ELSE 0

\* cv::threshold(.., 129, 255, THRESH_BINARY) on one value.
ThresholdBinary(v) == IF v > ThresholdVal THEN PixelMax ELSE 0

Threshold(gray) == [x \in 1..Len(gray) |-> ThresholdBinary(gray[x])]

\* cv::borderInterpolate(p, len, BORDER_REFLECT_101), 1-based columns.
Reflect101(p, len) ==
    IF len = 1 THEN 1
    ELSE IF p < 1 THEN 2 - p
    ELSE IF p > len THEN 2 * len - p
    ELSE p

\* cv::blur(.., Size(3,3)) on a one-row image: the rows above and below
\* reflect onto the row itself, so the 3x3 sum is three times the 1x3 sum.
Blur3x3(gray) ==
    LET w == Len(gray)
        s(x) == gray[Reflect101(x - 1, w)] + gray[x] + gray[Reflect101(x + 1, w)]
    IN  [x \in 1..w |-> (2 * 3 * s(x) + 9) \div 18]

\* cv::cvtColor(COLOR_GRAY2BGR): the gray value in all three channels.
Gray2Bgr(gray) == [x \in 1..Len(gray) |-> <<gray[x], gray[x], gray[x]>>]

\* cv::bitwise_or(frame, mask) per pixel and channel.
BitwiseOrFrame(img, mask) ==
    [x \in 1..Len(img) |-> [c \in 1..3 |-> BitwiseOr(img[x][c], mask[x][c])]]

\* The mask of the overlay branch, before it is OR-ed onto the frame.
OverlayMask(diff) == Gray2Bgr(Blur3x3(Threshold(Bgr2Gray(diff))))

\* The overlay branch of extractMotion (lines 241-251).
Overlay(cur, diff) == BitwiseOrFrame(cur, OverlayMask(diff))

\* The post-processing branch of extractMotion (lines 240-254).
PostProcess(ov, cur, diff) ==
    IF ov THEN Overlay(cur, diff) ELSE applyGammaCorrection(diff)

\* ============================================================ command line

Digits == <<"0", "1", "2", "3", "4", "5", "6", "7", "8", "9">>

IsDigit(c) == \E n \in 1..10 : Digits[n] = c

DigitVal(c) == (CHOOSE n \in 1..10 : Digits[n] = c) - 1

RECURSIVE ParseDigits(_, _, _)
ParseDigits(s, i, acc) ==
    IF i > Len(s) \/ ~IsDigit(s[i]) THEN acc
    ELSE ParseDigits(s, i + 1, acc * 10 + DigitVal(s[i]))

\* std::stoi(optarg): optional sign, then the longest run of digits; what
\* follows the digits is ignored; no digit at all throws invalid_argument.
stoi(s) ==
    LET signed == Len(s) >= 1 /\ s[1] \in {"-", "+"}
        start  == IF signed THEN 2 ELSE 1
        hasDig == start <= Len(s) /\ IsDigit(s[start])
        mag    == ParseDigits(s, start, 0)
    IN  [ok  |-> hasDig,
         val |-> IF signed /\ s[1] = "-" THEN 0 - mag ELSE mag]

\* The option arguments tried: the integers 0..MaxFrames+1, a negative
\* integer, a negative fraction, a fraction, and a word.
IntStr(n) == <<Digits[n + 1]>>

OptArgs ==
    {IntStr(n) : n \in 0..(MaxFrames + 1)}
        \cup {<<"-", "1">>, <<"-", "0", ".", "5">>, <<"1", ".", "5">>, <<"x">>}

\* What getopt_long hands to the switch, one token per option on the line.
Tokens ==
    {[opt |-> o, arg |-> a] : o \in {"f", "s"}, a \in OptArgs}
        \cup {[opt |-> o, arg |-> <<>>] : o \in {"o", "h", "?"}}

CommandLines == UNION {[1..n -> Tokens] : n \in 0..MaxOpts}

\* The text s is a decimal number below zero: "-", digits with at most one
\* ".", and a digit other than "0" somewhere.
DenotesNegative(s) ==
    /\ Len(s) >= 2 /\ s[1] = "-"
    /\ \A i \in 2..Len(s) : IsDigit(s[i]) \/ s[i] = "."
    /\ Cardinality({i \in 2..Len(s) : s[i] = "."}) <= 1
    /\ \E i \in 2..Len(s) : IsDigit(s[i]) /\ s[i] # "0"

HasOpt(cl, o) == \E i \in 1..Len(cl) : cl[i].opt = o

\* The argument of the last occurrence of option o (the one that counts).
LastArg(cl, o) ==
    cl[CHOOSE i \in 1..Len(cl) :
          cl[i].opt = o /\ \A j \in (i + 1)..Len(cl) : cl[j].opt # o].arg

\* What the command line asks for, kept for reference after getopt_long
\* has consumed it.
Describe(cl) ==
    [frames   |-> HasOpt(cl, "f"),
     seconds  |-> HasOpt(cl, "s"),
     negative |-> \E o \in {"f", "s"} :
                     HasOpt(cl, o) /\ DenotesNegative(LastArg(cl, o)),
     help     |-> HasOpt(cl, "h"),
     unknown  |-> HasOpt(cl, "?")]

\* The non-option arguments left at argv[optind..].
Positionals == {<<"in.mp4">>, <<"in.mp4", "out.mp4">>}

\* struct arguments, as default-initialised.
DefaultArgs ==
    [inputPath |-> "", outputPath |-> "",
     framesToSkip |-> 0, secondsToSkip |-> 0,
     framesOption |-> FALSE, secondsOption |-> FALSE, overlay |-> FALSE]

\* ================================================================== videos

Palette == {<<0, 0, 0>>, <<200, 120, 40>>}

\* A frame of width w: first pixel c1, the others c2 (solid when c1 = c2).
EdgeFrame(w, c1, c2) == [x \in 1..w |-> IF x = 1 THEN c1 ELSE c2]

PaletteFrames(w) == {EdgeFrame(w, c1, c2) : c1 \in Palette, c2 \in Palette}

PaletteVideos ==
    UNION {[1..k -> PaletteFrames(w)] : k \in 0..MaxFrames, w \in 1..MaxWidth}

\* One-pixel gray frames over the whole 8-bit range: a two-frame video whose
\* second frame has value a and whose first has 0, a or 255.
GrayFrame(v) == << <<v, v, v>> >>

GrayVideos ==
    UNION {{<<GrayFrame(b), GrayFrame(a)>> : b \in {0, a, PixelMax}}
              : a \in 0..PixelMax}

Videos == PaletteVideos \cup GrayVideos

\* Frame rates, in half frames per second (2 is 1.0 fps, 3 is 1.5 fps).
FpsHalves == {2, 3}

\* An empty cv::Mat.
Empty == [idx |-> -1, px |-> <<>>]

\* =================================================================== state

VARIABLES
    argv,           \* option tokens getopt_long has not yet returned
    invocation,     \* summary of the whole command line
    positional,     \* the non-option arguments
    args,           \* struct arguments being filled by parseArgs
    pc,             \* position of the process
    exitStatus,     \* "running", "success" or "failure"
    errPath,        \* the path printed in the error message, "" if none
    inputOpened,    \* "no", then "open" or "failed" once VideoCapture is built
    outputCreated,  \* "no", then "created" or "failed" once VideoWriter is built
    video,          \* the frames the opened input holds
    frameCount,     \* CAP_PROP_FRAME_COUNT
    fps2,           \* CAP_PROP_FPS, in half frames per second
    frameDelay,     \* main's frameDelay, -1 while unassigned
    pos,            \* frames the VideoCapture has handed out so far
    frameQueue,     \* extractMotion's frameQueue
    frame,          \* extractMotion's frame
    firstFrame,     \* extractMotion's firstFrame
    outputFrame,    \* extractMotion's outputFrame
    sink,           \* frames written to the VideoWriter, in order
    pushes,         \* frameQueue.push calls so far
    pops            \* frameQueue.pop calls so far

vars == <<argv, invocation, positional, args, pc, exitStatus, errPath, inputOpened,
          outputCreated, video, frameCount, fps2, frameDelay, pos,
          frameQueue, frame, firstFrame, outputFrame, sink, pushes, pops>>

mainVars == <<inputOpened, outputCreated, video, frameCount, fps2, frameDelay>>

emVars == <<pos, frameQueue, frame, firstFrame, outputFrame, sink, pushes, pops>>

Init ==
    /\ argv \in CommandLines
    /\ invocation = Describe(argv)
    /\ positional \in Positionals
    /\ args = DefaultArgs
    /\ pc = "getopt"
    /\ exitStatus = "running"
    /\ errPath = ""
    /\ inputOpened = "no"
    /\ outputCreated = "no"
    /\ video = <<>>
    /\ frameCount = 0
    /\ fps2 = 2
    /\ frameDelay = -1
    /\ pos = 0
    /\ frameQueue = <<>>
    /\ frame = Empty
    /\ firstFrame = Empty
    /\ outputFrame = Empty
    /\ sink = <<>>
    /\ pushes = 0
    /\ pops = 0

\* std::exit(status), or abort after an uncaught exception.
Exit(status, path) ==
    /\ pc' = "exit"
    /\ exitStatus' = status
    /\ errPath' = path

\* =============================================================== parseArgs

\* case 'h': print the help and exit successfully.
OptHelp ==
    /\ pc = "getopt" /\ argv # <<>> /\ Head(argv).opt = "h"
    /\ Exit("success", "")
    /\ argv' = Tail(argv)
    /\ UNCHANGED <<invocation, positional, args, mainVars, emVars>>

\* case 'f': framesToSkip = std::stoi(optarg).
OptFrames ==
    /\ pc = "getopt" /\ argv # <<>> /\ Head(argv).opt = "f"
    /\ argv' = Tail(argv)
    /\ LET r == stoi(Head(argv).arg) IN
         IF r.ok
         THEN /\ args' = [args EXCEPT !.framesToSkip = r.val,
                                      !.framesOption = TRUE]
              /\ UNCHANGED <<pc, exitStatus, errPath>>
         ELSE /\ Exit("failure", "")
              /\ UNCHANGED args
    /\ UNCHANGED <<invocation, positional, mainVars, emVars>>

\* case 's': secondsToSkip = std::stoi(optarg).
OptSeconds ==
    /\ pc = "getopt" /\ argv # <<>> /\ Head(argv).opt = "s"
    /\ argv' = Tail(argv)
    /\ LET r == stoi(Head(argv).arg) IN
         IF r.ok
         THEN /\ args' = [args EXCEPT !.secondsToSkip = r.val,
                                      !.secondsOption = TRUE]
              /\ UNCHANGED <<pc, exitStatus, errPath>>
         ELSE /\ Exit("failure", "")
              /\ UNCHANGED args
    /\ UNCHANGED <<invocation, positional, mainVars, emVars>>

\* case 'o': overlay = true.
OptOverlay ==
    /\ pc = "getopt" /\ argv # <<>> /\ Head(argv).opt = "o"
    /\ argv' = Tail(argv)
    /\ args' = [args EXCEPT !.overlay = TRUE]
    /\ UNCHANGED <<invocation, positional, pc, exitStatus, errPath, mainVars, emVars>>

\* case '?': unknown option, usage, exit with failure.
OptUnknown ==
    /\ pc = "getopt" /\ argv # <<>> /\ Head(argv).opt = "?"
    /\ Exit("failure", "")
    /\ argv' = Tail(argv)
    /\ UNCHANGED <<invocation, positional, args, mainVars, emVars>>

\* The checks of parseArgs after the option loop.
ArgsAccepted(a, npos) ==
    /\ ~(a.framesOption /\ a.secondsOption)
    /\ (a.framesOption \/ a.secondsOption)
    /\ ~(a.framesToSkip < 0)
    /\ ~(a.secondsToSkip < 0)
    /\ npos = 2

\* getopt_long returned -1: validate and take the two paths.
ParseArgsChecks ==
    /\ pc = "getopt" /\ argv = <<>>
    /\ IF ArgsAccepted(args, Len(positional))
       THEN /\ args' = [args EXCEPT !.inputPath = positional[1],
                                    !.outputPath = positional[2]]
            /\ pc' = "open_input"
            /\ UNCHANGED <<exitStatus, errPath>>
       ELSE /\ Exit("failure", "")
            /\ UNCHANGED args
    /\ UNCHANGED <<argv, invocation, positional, mainVars, emVars>>

\* ==================================================================== main

cliVars == <<argv, invocation, positional, args>>

\* cv::VideoCapture inputVideo(args.inputPath) fails: report and exit
\* (lines 39-44).
OpenInputFails ==
    /\ pc = "open_input"
    /\ inputOpened' = "failed"
    /\ Exit("failure", args.outputPath)
    /\ UNCHANGED <<cliVars, outputCreated, video, frameCount, fps2,
                   frameDelay, emVars>>

\* cv::VideoCapture inputVideo(args.inputPath) succeeds; read the stream
\* properties (lines 39-51).
OpenInputOk ==
    /\ pc = "open_input"
    /\ inputOpened' = "open"
    /\ \E v \in Videos, f \in FpsHalves :
         /\ video' = v
         /\ frameCount' = Len(v)
         /\ fps2' = f
    /\ pc' = "validate"
    /\ UNCHANGED <<cliVars, exitStatus, errPath, outputCreated, frameDelay,
                   emVars>>

\* frameDelay = args.secondsToSkip * fps, converted to unsigned long.
SecondsToFrames(seconds, fpsHalves) == (seconds * fpsHalves) \div 2

\* main's frameDelay after lines 54-70.
RequestedDelay(a, fpsHalves, old) ==
    LET d1 == IF a.framesOption THEN a.framesToSkip ELSE old
    IN  IF a.secondsOption THEN SecondsToFrames(a.secondsToSkip, fpsHalves)
        ELSE d1

\* Variant of OffsetRejected that also refuses an offset equal to the length.
OffsetRejectedInclusive(a, fpsHalves, count) ==
    \/ a.framesOption /\ a.framesToSkip >= count
    \/ a.secondsOption /\ SecondsToFrames(a.secondsToSkip, fpsHalves) >= count

\* One of the two "frameDelay > frameCount" tests of main fires.
OffsetRejected(a, fpsHalves, count) ==
    \/ a.framesOption /\ a.framesToSkip > count
    \/ a.secondsOption /\ SecondsToFrames(a.secondsToSkip, fpsHalves) > count

\* Lines 53-70: compute frameDelay and refuse an offset beyond the video.
ValidateOffset ==
    /\ pc = "validate"
    /\ frameDelay' = RequestedDelay(args, fps2, frameDelay)
    /\ IF OffsetRejected(args, fps2, frameCount)
       THEN Exit("failure", "")
       ELSE /\ pc' = "open_output"
            /\ UNCHANGED <<exitStatus, errPath>>
    /\ UNCHANGED <<cliVars, inputOpened, outputCreated, video, frameCount,
                   fps2, emVars>>

\* cv::VideoWriter outputVideo(args.outputPath, ..) fails (lines 72-77).
OpenOutputFails ==
    /\ pc = "open_output"
    /\ outputCreated' = "failed"
    /\ Exit("failure", args.outputPath)
    /\ UNCHANGED <<cliVars, inputOpened, video, frameCount, fps2, frameDelay,
                   emVars>>

\* cv::VideoWriter outputVideo(args.outputPath, ..) succeeds; main calls
\* extractMotion (lines 72-79).
OpenOutputOk ==
    /\ pc = "open_output"
    /\ outputCreated' = "created"
    /\ pc' = "em_start"
    /\ UNCHANGED <<cliVars, exitStatus, errPath, inputOpened, video,
                   frameCount, fps2, frameDelay, emVars>>

\* =========================================================== extractMotion

runVars == <<cliVars, exitStatus, errPath, mainVars>>

\* The frame the VideoCapture hands out next.
NextFrame == [idx |-> pos, px |-> video[pos + 1]]

\* Lines 220-222: with frameDelay == 0 the first frame is read and kept.
SaveFirstFrame ==
    /\ pc = "em_start"
    /\ IF frameDelay = 0 /\ pos < Len(video)
       THEN /\ firstFrame' = NextFrame
            /\ pos' = pos + 1
       ELSE UNCHANGED <<firstFrame, pos>>
    /\ pc' = "read"
    /\ UNCHANGED <<runVars, frameQueue, frame, outputFrame, sink, pushes, pops>>

\* Line 224: inputVideo.read(frame) returns a frame.
ReadFrame ==
    /\ pc = "read"
    /\ pos < Len(video)
    /\ frame' = NextFrame
    /\ pos' = pos + 1
    /\ pc' = IF frameDelay > 0 THEN "push" ELSE "compare"
    /\ UNCHANGED <<runVars, frameQueue, firstFrame, outputFrame, sink,
                   pushes, pops>>

\* Variant of EndOfStream that flushes the buffered frames to the sink.
EndOfStreamFlush ==
    /\ pc = "read"
    /\ pos >= Len(video)
    /\ frame' = Empty
    /\ pc' = "done"
    /\ exitStatus' = "success"
    /\ sink' = sink \o [i \in 1..Len(frameQueue) |->
                           [idx |-> frameQueue[i].idx, ref |-> frameQueue[i].idx,
                            px  |-> PostProcess(args.overlay, frameQueue[i].px,
                                       compareFrames(frameQueue[i].px,
                                                     frameQueue[i].px))]]
    /\ UNCHANGED <<cliVars, errPath, mainVars, pos, frameQueue, firstFrame,
                   outputFrame, pushes, pops>>

\* Line 224: inputVideo.read(frame) fails; frame is released, the loop ends,
\* extractMotion returns and main returns 0.
EndOfStream ==
    /\ pc = "read"
    /\ pos >= Len(video)
    /\ frame' = Empty
    /\ pc' = "done"
    /\ exitStatus' = "success"
    /\ UNCHANGED <<cliVars, errPath, mainVars, pos, frameQueue, firstFrame,
                   outputFrame, sink, pushes, pops>>

\* Variant of PushFrame that stops filling one frame early.
PushFrameShort ==
    /\ pc = "push"
    /\ frameQueue' = Append(frameQueue, frame)
    /\ pushes' = pushes + 1
    /\ pc' = IF Len(frameQueue) + 1 < frameDelay THEN "read" ELSE "compare"
    /\ UNCHANGED <<runVars, pos, frame, firstFrame, outputFrame, sink, pops>>

\* Lines 226-229: clone the frame into the buffer; keep filling while the
\* buffer holds fewer than frameDelay + 1 frames.
PushFrame ==
    /\ pc = "push"
    /\ frameQueue' = Append(frameQueue, frame)
    /\ pushes' = pushes + 1
    /\ pc' = IF Len(frameQueue) + 1 < frameDelay + 1 THEN "read" ELSE "compare"
    /\ UNCHANGED <<runVars, pos, frame, firstFrame, outputFrame, sink, pops>>

\* Variant of Reference that takes the newest buffered frame.
ReferenceNewest ==
    IF frameDelay = 0 THEN firstFrame ELSE frameQueue[Len(frameQueue)]

\* The frame line 233-236 compares the current frame against.
Reference == IF frameDelay = 0 THEN firstFrame ELSE Head(frameQueue)

\* Lines 231-236: compareFrames(frame, reference, outputFrame).
CompareStep ==
    /\ pc = "compare"
    /\ outputFrame' = [idx |-> frame.idx, ref |-> Reference.idx,
                       px  |-> compareFrames(frame.px, Reference.px)]
    /\ pc' = IF frameDelay = 0 THEN "post" ELSE "pop"
    /\ UNCHANGED <<runVars, pos, frameQueue, frame, firstFrame, sink,
                   pushes, pops>>

\* Variant of PopFrame that leaves the oldest frame in the buffer.
PopFrameKeeps ==
    /\ pc = "pop"
    /\ pops' = pops + 1
    /\ pc' = "post"
    /\ UNCHANGED <<runVars, pos, frameQueue, frame, firstFrame, outputFrame,
                   sink, pushes>>

\* Line 237: frameQueue.pop().
PopFrame ==
    /\ pc = "pop"
    /\ frameQueue' = Tail(frameQueue)
    /\ pops' = pops + 1
    /\ pc' = "post"
    /\ UNCHANGED <<runVars, pos, frame, firstFrame, outputFrame, sink, pushes>>

\* Lines 240-254: overlay onto the current frame, or gamma correction.
PostProcessStep ==
    /\ pc = "post"
    /\ outputFrame' = [outputFrame EXCEPT
                         !.px = PostProcess(args.overlay, frame.px, @)]
    /\ pc' = "write"
    /\ UNCHANGED <<runVars, pos, frameQueue, frame, firstFrame, sink,
                   pushes, pops>>

\* Line 256-257: outputVideo.write(outputFrame); outputFrame goes out of
\* scope at the end of the loop body.
WriteFrame ==
    /\ pc = "write"
    /\ sink' = Append(sink, outputFrame)
    /\ outputFrame' = Empty
    /\ pc' = "read"
    /\ UNCHANGED <<runVars, pos, frameQueue, frame, firstFrame, pushes, pops>>

Next ==
    \/ OptHelp
    \/ OptFrames
    \/ OptSeconds
    \/ OptOverlay
    \/ OptUnknown
    \/ ParseArgsChecks
    \/ OpenInputFails
    \/ OpenInputOk
    \/ ValidateOffset
    \/ OpenOutputFails
    \/ OpenOutputOk
    \/ SaveFirstFrame
    \/ ReadFrame
    \/ EndOfStream
    \/ PushFrame
    \/ CompareStep
    \/ PopFrame
    \/ PostProcessStep
    \/ WriteFrame

Spec == Init /\ [][Next]_vars

\* ============================================================== properties

\* extractMotion has been entered.
InPipeline ==
    pc \in {"em_start", "read", "push", "compare", "pop", "post", "write", "done"}

Bit(v, k) == (v \div (2 ^ k)) % 2

IsUniform(px) ==
    \A x \in 1..Len(px), c \in 1..3 : px[x][c] = px[1][1]

AllIdentical(v) == \A i \in 1..Len(v) : v[i] = v[1]

\* Frames resident in extractMotion: the buffer, the anchor, the current
\* frame and the output in flight.
Resident ==
    Len(frameQueue)
        + (IF firstFrame # Empty THEN 1 ELSE 0)
        + (IF frame # Empty THEN 1 ELSE 0)
        + (IF outputFrame # Empty THEN 1 ELSE 0)

\* C1 (as claimed): a complete run over K frames with delay d, 0 <= d <= K,
\* writes exactly K - d frames to the sink (K frames when d = 0).
C1_OutputCount ==
    pc = "done" => Len(sink) = frameCount - frameDelay

\* C2: with d > 0 the j-th output compares input frame j-1+d against input
\* frame j-1 (exactly d earlier), nothing is written during the first d
\* reads, and outputs are written in increasing order of the current frame;
\* with d = 0 every output compares its current frame against input frame 0,
\* the first frame read.  The frame the comparator produces is the
\* comparison of the pixels of exactly these two input frames, the current
\* one being the frame read last.
C2_FrameAlignment ==
    /\ \A j \in 1..Len(sink) :
         IF frameDelay > 0
         THEN /\ sink[j].idx = j - 1 + frameDelay
              /\ sink[j].ref = sink[j].idx - frameDelay
         ELSE /\ sink[j].idx = j
              /\ sink[j].ref = 0
              /\ firstFrame.px = video[1]
    /\ \A j \in 1..Len(sink), k \in 1..Len(sink) :
         j < k => sink[j].idx < sink[k].idx
    /\ (frameDelay > 0 /\ pos <= frameDelay) => sink = <<>>
    /\ pc \in {"pop", "post"} =>
         /\ outputFrame.idx = pos - 1
         /\ outputFrame.ref = IF frameDelay > 0 THEN pos - 1 - frameDelay ELSE 0
         /\ outputFrame.px = compareFrames(video[outputFrame.idx + 1],
                                           video[outputFrame.ref + 1])
    /\ pc = "write" =>
         /\ outputFrame.idx = pos - 1
         /\ outputFrame.ref = IF frameDelay > 0 THEN pos - 1 - frameDelay ELSE 0

C2_Witness ==
    /\ pc = "done" /\ frameDelay = 1 /\ Len(sink) = 2
    /\ video[1] # video[2] /\ video[2] # video[3]

\* C3 (as claimed): at every instant of extractMotion at most d + 2 frames
\* are resident.
C3_ResidentAtMostDPlus2 ==
    InPipeline => Resident <= frameDelay + 2

\* C3 (amended): at every instant of extractMotion at most d + 3 frames are
\* resident, whatever the length of the video.
C3_ResidentAtMostDPlus3 ==
    InPipeline => Resident <= frameDelay + 3

C3_Witness ==
    /\ pc = "pop" /\ frameDelay = 2 /\ Resident = frameDelay + 3

C5_InvalidConfiguration ==
    (/\ ~invocation.help /\ ~invocation.unknown
     /\ \/ invocation.frames /\ invocation.seconds
        \/ ~invocation.frames /\ ~invocation.seconds
        \/ invocation.negative) =>
        /\ inputOpened = "no" /\ outputCreated = "no" /\ sink = <<>>
        /\ ~InPipeline
        /\ pc = "exit" => exitStatus = "failure"

\* C6 (as claimed): a failed open of the input exits with failure reporting
\* the input path, a failed creation of the output exits with failure
\* reporting the output path, and in both cases the pipeline never runs.
C6_ReportedPath ==
    /\ inputOpened = "failed" =>
         /\ pc = "exit" /\ exitStatus = "failure" /\ sink = <<>>
         /\ errPath = args.inputPath
    /\ outputCreated = "failed" =>
         /\ pc = "exit" /\ exitStatus = "failure" /\ sink = <<>>
         /\ errPath = args.outputPath

\* C7 (as claimed): with d > 0 no written output is derived from any of the
\* input frames K-d .. K-1, neither as current nor as reference frame.
C7_LastFramesUnused ==
    frameDelay > 0 =>
        \A j \in 1..Len(sink) :
            /\ sink[j].idx < frameCount - frameDelay
            /\ sink[j].ref < frameCount - frameDelay

\* C7 (amended): with d > 0 no written output uses any of the input frames
\* K-d .. K-1 as its reference frame; at end of stream exactly these d frames
\* are still buffered, nothing is flushed (K - d outputs in all, none in
\* flight), and every input frame from index d on, the last d included, has
\* been the current frame of one output.
C7_LastFramesNeverReference ==
    (InPipeline /\ frameDelay > 0) =>
        /\ \A j \in 1..Len(sink) : sink[j].ref < frameCount - frameDelay
        /\ pc = "done" =>
             /\ Len(frameQueue) = frameDelay
             /\ \A i \in 1..Len(frameQueue) :
                  /\ frameQueue[i].idx = frameCount - frameDelay + i - 1
                  /\ frameQueue[i].px = video[frameCount - frameDelay + i]
             /\ Len(sink) = frameCount - frameDelay
             /\ outputFrame = Empty
             /\ {sink[j].idx : j \in 1..Len(sink)}
                    = frameDelay..(frameCount - 1)

C7_Witness ==
    /\ pc = "done" /\ frameDelay = 2 /\ Len(sink) = 1 /\ Len(frameQueue) = 2

\* C8: with d > 0, at the head of every loop iteration the buffer holds
\* min(reads, d) frames (one more per read while filling, exactly d from
\* then on), every frame read has been pushed once, every frame read past
\* the fill phase has caused one pop, the buffer never exceeds d + 1, and
\* the buffer is in arrival order with the oldest frame at the front.
C8_BufferInvariant ==
    (InPipeline /\ frameDelay > 0) =>
        /\ Len(frameQueue) = pushes - pops
        /\ Len(frameQueue) <= frameDelay + 1
        /\ \A i \in 1..Len(frameQueue) :
             /\ frameQueue[i].idx = pops + i - 1
             /\ frameQueue[i].px = video[pops + i]
        /\ pc \in {"read", "done"} =>
             /\ Len(frameQueue) = Min(pos, frameDelay)
             /\ pushes = pos
             /\ pops = Max(0, pos - frameDelay)

C8_Witness ==
    /\ pc = "read" /\ frameDelay = 2 /\ pops = 1 /\ pushes = 3
    /\ Len(frameQueue) = 2

\* C9: the comparator's output is, per channel, 0.5*current +
\* 0.5*(255 - reference) rounded to 8 bits; where current and reference
\* agree it is mid-gray (127 or 128); and a gamma-mode run over identical
\* frames writes frames that are uniform and equal to one another.
C9_CompareMidGray ==
    /\ pc \in {"pop", "post"} =>
         \A x \in 1..Len(outputFrame.px), c \in 1..3 :
            LET a == video[outputFrame.idx + 1][x][c]
                b == video[outputFrame.ref + 1][x][c]
                o == outputFrame.px[x][c]
            IN  /\ 2 * o - (a + (255 - b)) \in {-1, 0, 1}
                /\ a = b => o \in {127, 128}
    /\ (InPipeline /\ ~args.overlay /\ AllIdentical(video)) =>
         \A j \in 1..Len(sink) :
            /\ IsUniform(sink[j].px)
            /\ sink[j].px = sink[1].px

C9_Witness ==
    /\ pc = "done" /\ ~args.overlay /\ frameDelay = 1 /\ Len(sink) = 2
    /\ AllIdentical(video) /\ ~IsUniform(video[1])

\* C10: in overlay mode every written value has all the bits of the
\* current input frame's value (so it is never darker), and for one-pixel
\* frames it is white where the gray comparator value is >= 130 and the
\* current frame's own value where it is <= 129; in gamma mode the written
\* value is the table entry of the comparator value.
C10_OverlayComposite ==
    \A j \in 1..Len(sink) :
        LET cur  == video[sink[j].idx + 1]
            diff == compareFrames(cur, video[sink[j].ref + 1])
            out  == sink[j].px
        IN  IF args.overlay
            THEN /\ \A x \in 1..Len(out), c \in 1..3 :
                      /\ out[x][c] >= cur[x][c]
                      /\ \A k \in 0..7 : Bit(cur[x][c], k) <= Bit(out[x][c], k)
                 /\ Len(out) = 1 =>
                      /\ Bgr2Gray(diff)[1] >= 130 =>
                           out[1] = <<255, 255, 255>>
                      /\ Bgr2Gray(diff)[1] <= 129 => out[1] = cur[1]
            ELSE \A x \in 1..Len(out), c \in 1..3 :
                      out[x][c] = gammaLUT[diff[x][c] + 1]

C10_Witness ==
    /\ pc = "done" /\ args.overlay /\ Len(sink) = 1 /\ Len(sink[1].px) = 1
    /\ Bgr2Gray(compareFrames(video[2], video[1]))[1] = 129
    /\ sink[1].px = video[2]

====
